---- MODULE Spec2Model ----
(***************************************************************************)
(* The notebook kernel bridge of vscode-R (src/src/extension/rTerminal.ts, *)
(* lines 269-700): RKernel, RNotebook and RNotebookProvider for one        *)
(* notebook document.                                                      *)
(*                                                                         *)
(* The extension host runs JavaScript on one thread.  One action of this   *)
(* model is one macrotask (a command invocation, a callback of net or      *)
(* child_process, the completion of an editor command) together with all   *)
(* promise continuations (microtasks) it makes runnable: those run before  *)
(* the next macrotask is taken.  An await of a promise that is not yet     *)
(* settled is where an action ends.                                        *)
(*                                                                         *)
(* Every call of RKernel.start() that passes the `if (this.process)` test  *)
(* creates a server, a promise and, in the listen callback, a child        *)
(* process; such a call is a "start attempt" and has an entry in att.      *)
(* The data socket of an attempt is named by the attempt's number, so      *)
(* kernel[k].process and kernel[k].socket hold attempt numbers (0 is       *)
(* undefined).                                                             *)
(***************************************************************************)
EXTENDS Integers, Sequences, FiniteSets, TLC

\* Bounds of the model
NumCells   == 2   \* runnable code cells of the document
MaxKernels == 2   \* RNotebook objects created (document-open events)
MaxStarts  == 2   \* start attempts (servers created by RKernel.start)
MaxRuns    == 2   \* largest value of runIndex
NumDocs    == 2   \* documents, where several are open
MaxResponses == 3 \* Responses written on the connection seen byte by byte
MaxExprLen == 3   \* characters of a cell's text in a request
MaxRunAll  == 1   \* invocations of executeCell(document, undefined)
MaxLines   == 5   \* lines of a document file
MaxRmdLines == 5  \* lines of a document in the text editor
MaxTerminals == 3 \* terminals open in the editor
MaxTermRuns == 3  \* calls of runTextInTerm

Cells   == 1..NumCells
Docs    == 1..NumDocs

\* The document: a yaml front-matter cell (a Code cell with runnable: false),
\* then the runnable code cells 1..NumCells.
FrontMatter == NumCells + 1
DocCells    == Cells \cup {FrontMatter}
Runnable(c) == c \in Cells

\* The cell after c in the document (past the last one: NumCells + 2).
After(c) == IF c = FrontMatter THEN 1 ELSE IF c = NumCells THEN NumCells + 2 ELSE c + 1
Kernels == 1..MaxKernels
Starts  == 1..MaxStarts

\* RKernelResponse.type as far as the run state depends on it
ResponseTypes == {"text", "error"}

VARIABLES
  notebooks,   \* the registry: the RNotebook registered for the document (0: none)
  nKernels,    \* RNotebook/RKernel objects created so far
  kernel,      \* kernel[k]: the fields process and socket of RKernel k
  restarting,  \* restarting[k]: restartKernel calls awaiting the clear-outputs command
  att,         \* att[a]: start attempt a (server, promise, child process, socket)
  nStarts,     \* start attempts created so far
  cells,       \* cells[c]: metadata of cell c and the executeCell call in progress on it
  runIndex,    \* RNotebookProvider.runIndex
  nRunAll,     \* run-all invocations so far
  last,        \* what the handler that ran in the last step was called with and did
  cellView,    \* one cell as the editor shows it: run state and outputs
  docs,        \* with several documents open: each document's registry entry and cells
  stream,      \* one connection seen byte by byte: what the child wrote, what was read
  wire,        \* the last request frame RKernel.request wrote
  file,        \* a document file: its content on disk and the cells read from it
  rmd,         \* a document in the text editor: its text, the cursor, the last chunk command
  term         \* the terminals of the editor, rTerm and the run of runTextInTerm under way

vars == <<notebooks, nKernels, kernel, restarting, att, nStarts, cells, runIndex, nRunAll, last,
          cellView, docs, stream, wire, file, rmd, term>>

\* The five types of RKernelResponse, and the values of its result field.
AllResponseTypes == {"text", "plot", "viewer", "browser", "error"}
Results == {"r1", "r2"}
NoResponse == [type |-> "none", result |-> "none"]

\* What readFile returns for the file named by a plot Response.
FileContent(uri) == <<"content of", uri>>

\* A cell as shown by the editor, in the Running state of its first run.
NewView ==
  [runState |-> "Running",
   outputs |-> <<>>,        \* cell.outputs
   resp |-> NoResponse,     \* the Response the current run's eval resolved with
   had |-> 0,               \* number of outputs the cell had when that Response arrived
   reading |-> "none",      \* the file a pending readFile is reading
   readOk |-> FALSE]        \* the last readFile succeeded

\* The record of a step whose handler is not observed.
NoCmd ==
  [cmd |-> "none",      \* none, runOne, cancelOne, cancelAll, data
   doc |-> 0,           \* the document the command was given for (0: the only one)
   cell |-> 0,          \* the cell the command was given (0: none)
   running |-> FALSE,   \* a targeted cell was Running when the handler was called
   wrote |-> -1,        \* id of the Cancel request written to the socket (-1: none written)
   threw |-> FALSE]     \* the handler threw (its promise rejected)

\* The state as one record, so that a handler is a function from state to state.
State ==
  [notebooks |-> notebooks, nKernels |-> nKernels, kernel |-> kernel,
   restarting |-> restarting, att |-> att, nStarts |-> nStarts, cells |-> cells,
   runIndex |-> runIndex, nRunAll |-> nRunAll, last |-> NoCmd, cellView |-> cellView,
   docs |-> docs, stream |-> stream, wire |-> wire, file |-> file,
   rmd |-> rmd, term |-> term]

\* The handler's result becomes the next state; the counters stay within the bounds.
Commit(s) ==
  /\ s.nStarts <= MaxStarts
  /\ s.runIndex <= MaxRuns
  /\ notebooks' = s.notebooks
  /\ nKernels' = s.nKernels
  /\ kernel' = s.kernel
  /\ restarting' = s.restarting
  /\ att' = s.att
  /\ nStarts' = s.nStarts
  /\ cells' = s.cells
  /\ runIndex' = s.runIndex
  /\ nRunAll' = s.nRunAll
  /\ last' = s.last
  /\ cellView' = s.cellView
  /\ docs' = s.docs
  /\ stream' = s.stream
  /\ wire' = s.wire
  /\ file' = s.file
  /\ rmd' = s.rmd
  /\ term' = s.term

\* A new RKernel: process and socket undefined.
NewKernel == [process |-> 0, socket |-> 0]

NoRestart == [open |-> 0, all |-> 0]

\* An unused slot of att.
NoAttempt ==
  [k |-> 0,             \* the RKernel whose start() made the attempt
   server |-> "none",   \* none, listening (listen called), bound (listen callback ran), closed
   proc |-> "none",     \* none, alive, dying (killed or died, 'exit' not yet emitted), exited
   killed |-> FALSE,    \* RKernel.stop() called kill() on the child
   socket |-> "none",   \* none, open, ended ('end' emitted)
   promise |-> "none",  \* the promise start() returned: pending, resolved, rejected
   waiter |-> 0,        \* the cell whose executeCell awaits the promise (0: nobody)
   dupOf |-> 0,         \* the earlier attempt of the same kernel still in flight when this one was made
   reqs |-> {},         \* ids of the eval requests written to the socket and not yet answered
   port |-> 0,          \* server.address().port once the listener is bound (0: not bound)
   argPort |-> 0]       \* the port=... argument the child was spawned with (0: no child)

\* A cell before its first run.
IdleCell ==
  [runState |-> "Idle", executionOrder |-> 0,
   task |-> "none",        \* where executeCell is suspended: none, start (awaiting start()), eval
   on |-> 0,               \* the attempt whose promise (start) or socket (eval) it waits on
   ra |-> 0,               \* the run-all invocation that called executeCell (0: run-one)
   evalResult |-> "none",  \* outcome of RKernel.eval in this run: none, pending, response, undefined, rejected
   evalReady |-> FALSE,    \* this.socket was set when RKernel.eval was called
   reqId |-> 0,            \* id of the eval request written for this run (0: none written)
   resp |-> 0]             \* id of the Response that resolved the eval (0: none)

\* No request written yet.
NoWire == [contentLength |-> 0, payload |-> <<>>]

\* No terminal: rTerm undefined (0), no terminal open, none active (0), no
\* pathExists callback pending, createRTerm not yet called.
NoTerm ==
  [rTerm |-> 0, terminals |-> <<>>, active |-> 0, pathExists |-> "none",
   success |-> "none", runs |-> 0,
   run |-> [pc |-> "none", text |-> "none", outcome |-> "none", sentTo |-> 0,
            emptyAtStart |-> FALSE, created |-> FALSE, bracketedPaste |-> FALSE]]

\* No document in the text editor yet.
NoRmd == [phase |-> "none", text |-> <<>>, line |-> 0,
          last |-> [cmd |-> "none", threw |-> FALSE, lookupThrew |-> FALSE, chunk |-> 0,
                    sent |-> <<>>]]

\* No file yet: phase is none, closed (on disk), open, saved, reopened.
NoFile == [phase |-> "none", content |-> <<>>, original |-> <<>>, cells |-> <<>>, first |-> <<>>]

\* A connection on which nothing has been written yet.
NewStream ==
  [sent |-> <<>>,        \* ids of the Responses the child has written, in order
   unread |-> <<>>,      \* bytes written by the child and not yet read by the host
   handlers |-> 0,       \* 'data' handlers registered on the socket (pending evals)
   evals |-> 0,          \* evals issued on the connection so far
   delivered |-> <<>>,   \* ids of the Responses that resolved evals, in order
   faults |-> 0,         \* handler invocations that threw on the bytes they were given
   dropped |-> FALSE]    \* bytes were read while no handler was registered

\* A document known to the provider: not registered, no cell run.
NewDoc ==
  [notebooks |-> 0,     \* this.notebooks.get(uri): its kernel (0: no entry)
   kernels |-> {},      \* the kernels created for it so far
   cells |-> [c \in DocCells |-> IdleCell]]

Init ==
  /\ notebooks = 0
  /\ nKernels = 0
  /\ kernel = [k \in Kernels |-> NewKernel]
  /\ restarting = [k \in Kernels |-> NoRestart]
  /\ att = [a \in Starts |-> NoAttempt]
  /\ nStarts = 0
  /\ cells = [c \in DocCells |-> IdleCell]
  /\ runIndex = 0
  /\ nRunAll = 0
  /\ last = NoCmd
  /\ cellView = NewView
  /\ docs = [d \in Docs |-> NewDoc]
  /\ stream = NewStream
  /\ wire = NoWire
  /\ file = NoFile
  /\ rmd = NoRmd
  /\ term = NoTerm

----------------------------------------------------------------------------
(* RKernel *)

\* A start attempt that has neither connected nor failed, and was not stopped.
InFlight(s, a) ==
  /\ s.att[a].promise = "pending"
  /\ s.att[a].proc \in {"none", "alive"}
  /\ ~s.att[a].killed

\* RKernel.start() past the early return: createServer, listen, return the promise.
\* w is the cell whose executeCell awaits the promise.
KernelStart(s, k, w) ==
  LET a == s.nStarts + 1
      earlier == {b \in Starts : s.att[b].k = k /\ InFlight(s, b)}
  IN
  IF a > MaxStarts THEN [s EXCEPT !.nStarts = a]
  ELSE [s EXCEPT !.nStarts = a,
                 !.att[a] = [NoAttempt EXCEPT !.k = k, !.server = "listening",
                                !.promise = "pending", !.waiter = w,
                                !.dupOf = IF earlier = {} THEN 0
                                          ELSE CHOOSE b \in earlier : \A x \in earlier : b <= x]]

\* RKernel.stop()
KernelStop(s, k) ==
  LET p == s.kernel[k].process IN
  IF p = 0 THEN s
  ELSE [s EXCEPT !.att[p].proc = IF @ = "alive" THEN "dying" ELSE @,
                 !.att[p].killed = TRUE,
                 !.att[p].reqs = {},
                 !.kernel[k] = NewKernel]

\* RKernel.cancel writing id 0 whatever cell it is given.
KernelCancelNoId(s, k, id) ==
  IF s.kernel[k].socket # 0 THEN [s EXCEPT !.last.wrote = 0] ELSE s

\* RKernel.cancel(cell): a Cancel request with the cell's executionOrder (0 when
\* no cell is given) is written when this.socket is set; nothing else happens.
KernelCancel(s, k, id) ==
  IF s.kernel[k].socket # 0 THEN [s EXCEPT !.last.wrote = id] ELSE s

\* RKernel.restart(): stop(), then start(); after stop() this.process is undefined,
\* so start() never returns early here.  Nobody awaits the promise.
KernelRestart(s, k) == KernelStart(KernelStop(s, k), k, 0)

\* RKernel.eval(cell) and what executeCell does when it resolves at once.
\* With a socket: the data handler is registered on this.socket and the request
\* written.  Without one the async function returns undefined; executeCell then
\* throws on response.id and its catch block sets the run state to Error.
KernelEval(s, k, c) ==
  LET p == s.kernel[k].socket IN
  IF p # 0
  THEN [s EXCEPT !.att[p].reqs = @ \cup {s.cells[c].executionOrder},
                 !.cells[c].task = "eval", !.cells[c].on = p,
                 !.cells[c].evalResult = "pending", !.cells[c].evalReady = TRUE,
                 !.cells[c].reqId = s.cells[c].executionOrder]
  ELSE [s EXCEPT !.cells[c].task = "none", !.cells[c].on = 0,
                 !.cells[c].evalResult = "undefined", !.cells[c].evalReady = FALSE,
                 !.cells[c].runState = "Error"]

----------------------------------------------------------------------------
(* RNotebook *)

\* RNotebook.restartKernel(): await the clear-outputs command; the rest runs in
\* RestartContinue.  from is "open" or "all", the caller.
RestartKernel(s, k, from) ==
  [s EXCEPT !.restarting[k][from] = @ + 1]

\* RNotebook.eval(cell): await this.kernel.start(); return this.kernel.eval(cell).
\* start() returns at once when this.process is set, and the eval follows in the
\* same turn; otherwise the call waits for the new attempt's promise.
NotebookEval(s, k, c) ==
  IF s.kernel[k].process # 0
  THEN KernelEval(s, k, c)
  ELSE LET s1 == KernelStart(s, k, c) IN
       [s1 EXCEPT !.cells[c].task = "start", !.cells[c].on = s1.nStarts]

\* RNotebook.cancel(cell)
NotebookCancel(s, k, id) == KernelCancel(s, k, id)

----------------------------------------------------------------------------
(* RNotebookProvider *)

\* executeCell that reads the counter without incrementing it.
ExecuteCellSameOrder(s, c, r) ==
  IF s.notebooks = 0 \/ s.cells[c].runState = "Running" THEN s
  ELSE LET s1 == [s EXCEPT !.cells[c] = [IdleCell EXCEPT !.runState = "Running",
                                             !.executionOrder = s.runIndex + 1,
                                             !.ra = r]]
       IN NotebookEval(s1, s.notebooks, c)

\* executeCell without the test of the cell's run state.
ExecuteCellNoGuard(s, c, r) ==
  IF s.notebooks = 0 THEN s
  ELSE LET s1 == [s EXCEPT !.cells[c] = [IdleCell EXCEPT !.runState = "Running",
                                             !.executionOrder = s.runIndex + 1,
                                             !.ra = r],
                           !.runIndex = @ + 1]
       IN NotebookEval(s1, s.notebooks, c)

\* executeCell(document, cell) with a cell, up to its first pending await.
\* r is the run-all invocation that calls it (0: the run-one command).
ExecuteCell(s, c, r) ==
  IF s.notebooks = 0 \/ s.cells[c].runState = "Running" THEN s
  ELSE LET s1 == [s EXCEPT !.cells[c] = [IdleCell EXCEPT !.runState = "Running",
                                             !.executionOrder = s.runIndex + 1,
                                             !.ra = r],
                           !.runIndex = @ + 1]
       IN NotebookEval(s1, s.notebooks, c)

\* The call ExecuteCell(s, c, r) that led from s to s1 is waiting on a promise.
Suspended(s, s1, c) ==
  /\ ~(s.notebooks = 0 \/ s.cells[c].runState = "Running")
  /\ s1.cells[c].task # "none"

\* The loop without its await: every cell is started in the same turn.
RECURSIVE ExecuteFromNoAwait(_, _, _)
ExecuteFromNoAwait(s, r, c) ==
  IF c \notin DocCells THEN s
  ELSE ExecuteFromNoAwait(ExecuteCell(s, c, r), r, After(c))

\* The loop of executeCell(document, undefined) and of executeAllCells from cell
\* c on: each cell is awaited before the next one is started.  (From cell 1 on
\* every cell is a runnable code cell, so the two loops do the same there.)
RECURSIVE ExecuteFrom(_, _, _)
ExecuteFrom(s, r, c) ==
  IF c \notin DocCells THEN s
  ELSE LET s1 == ExecuteCell(s, c, r) IN
       IF Suspended(s, s1, c) THEN s1 ELSE ExecuteFrom(s1, r, After(c))

\* executeCell(document, undefined): only the cells with cellKind Code and
\* metadata.runnable are executed.
ExecuteRunnable(s, r) ==
  IF Runnable(FrontMatter) THEN ExecuteFrom(s, r, FrontMatter) ELSE ExecuteFrom(s, r, After(FrontMatter))

\* executeAllCells(document): executeCell for every cell of the document.
ExecuteAll(s, r) == ExecuteFrom(s, r, FrontMatter)

\* executeCell after notebook.eval resolved with a Response.
CellResolved(s, c, id, type) ==
  [s EXCEPT !.cells[c].runState = IF type = "error" THEN "Error" ELSE "Success",
            !.cells[c].task = "none", !.cells[c].on = 0,
            !.cells[c].evalResult = "response", !.cells[c].resp = id]

\* executeCell after kernel.start() rejected with undefined: the catch block
\* evaluates e.toString() first and throws, so neither outputs nor runState is
\* written and the call rejects (a run-all loop awaiting it ends there).
CellStartRejected(s, c) ==
  [s EXCEPT !.cells[c].task = "none", !.cells[c].on = 0]

\* The run-all loops whose awaited cell is in cs go on, in the order in which the
\* handlers were registered (the order of the cells' executionOrder in s0).
RECURSIVE ContinueRunAll(_, _, _)
ContinueRunAll(s, s0, cs) ==
  IF cs = {} THEN s
  ELSE LET c == CHOOSE x \in cs :
                  \A y \in cs : s0.cells[x].executionOrder <= s0.cells[y].executionOrder
       IN ContinueRunAll(
            IF s0.cells[c].ra # 0 THEN ExecuteFrom(s, s0.cells[c].ra, After(c)) ELSE s,
            s0, cs \ {c})

RECURSIVE ResolveAll(_, _, _, _)
ResolveAll(s, cs, id, type) ==
  IF cs = {} THEN s
  ELSE LET c == CHOOSE x \in cs : TRUE IN
       ResolveAll(CellResolved(s, c, id, type), cs \ {c}, id, type)

\* cancelCellExecution without the test of the cell's run state.
CancelCellExecutionNoGuard(s, c) ==
  IF s.notebooks = 0 THEN [s EXCEPT !.last.threw = TRUE]
  ELSE NotebookCancel(s, s.notebooks, s.cells[c].executionOrder)

\* cancelCellExecution(document, cell).  With no notebook registered for the
\* document, notebook.cancel is a call on undefined and throws.
CancelCellExecution(s, c) ==
  IF s.cells[c].runState # "Running" THEN s
  ELSE IF s.notebooks = 0 THEN [s EXCEPT !.last.threw = TRUE]
  ELSE NotebookCancel(s, s.notebooks, s.cells[c].executionOrder)

\* cancelAllCellsExecution(document): no test of any cell's run state.
CancelAllCellsExecution(s) ==
  IF s.notebooks = 0 THEN [s EXCEPT !.last.threw = TRUE]
  ELSE NotebookCancel(s, s.notebooks, 0)

\* executeCell from the Response of notebook.eval to the end of the switch, or
\* to the await of readFile for a plot.  v is the cell as shown, r the Response.
ProjectResponseKeepSuccess(v, r) ==
  LET v1 == [v EXCEPT !.runState = "Success", !.resp = r, !.had = Len(v.outputs)] IN
  CASE r.type = "text" ->
         [v1 EXCEPT !.outputs = <<[kind |-> "Text", mime |-> "none", payload |-> r.result]>>]
    [] r.type = "plot" ->
         [v1 EXCEPT !.reading = r.result]
    [] r.type \in {"viewer", "browser"} ->
         [v1 EXCEPT !.outputs = <<[kind |-> "Rich", mime |-> "text/plain", payload |-> r.result]>>]
    [] r.type = "error" ->
         [v1 EXCEPT !.outputs = <<[kind |-> "Error", mime |-> "none", payload |-> r.result]>>]

ProjectResponse(v, r) ==
  LET v1 == [v EXCEPT !.runState = "Success", !.resp = r, !.had = Len(v.outputs)] IN
  CASE r.type = "text" ->
         [v1 EXCEPT !.outputs = <<[kind |-> "Text", mime |-> "none", payload |-> r.result]>>]
    [] r.type = "plot" ->
         [v1 EXCEPT !.reading = r.result]
    [] r.type \in {"viewer", "browser"} ->
         [v1 EXCEPT !.outputs = <<[kind |-> "Rich", mime |-> "text/plain", payload |-> r.result]>>]
    [] r.type = "error" ->
         [v1 EXCEPT !.runState = "Error",
                    !.outputs = <<[kind |-> "Error", mime |-> "none", payload |-> r.result]>>]

\* The plot case after readFile: the file's content as an svg image, or the
\* catch block with the error of readFile.
PlotRead(v, ok) ==
  IF ok
  THEN [v EXCEPT !.reading = "none", !.readOk = TRUE,
                 !.outputs = <<[kind |-> "Rich", mime |-> "image/svg+xml",
                                payload |-> FileContent(v.reading)]>>]
  ELSE [v EXCEPT !.reading = "none", !.readOk = FALSE, !.runState = "Error",
                 !.outputs = <<[kind |-> "Error", mime |-> "none", payload |-> "readFile error"]>>]

----------------------------------------------------------------------------
(* Actions *)

\* onDidOpenNotebookDocument, for a document that is not registered.
OpenNotebook ==
  /\ notebooks = 0
  /\ nKernels < MaxKernels
  /\ LET k == nKernels + 1
         s == [State EXCEPT !.nKernels = k, !.notebooks = k]
     IN Commit(RestartKernel(s, k, "open"))

\* onDidCloseNotebookDocument: dispose() stops the kernel, the entry is deleted.
CloseNotebook ==
  /\ notebooks # 0
  /\ Commit([KernelStop(State, notebooks) EXCEPT !.notebooks = 0])

\* The clear-outputs command of a restartKernel call completes: kernel.restart().
\* The command itself belongs to the editor; cell outputs are not part of this model.
RestartContinue(k, from) ==
  /\ restarting[k][from] > 0
  /\ Commit(KernelRestart([State EXCEPT !.restarting[k][from] = @ - 1], k))

\* The listen callback of attempt a: spawn the child, this.process = childProcess.
\* The port the operating system gave the listener of attempt a: listeners
\* that are bound at the same time have different ports.
AddressPort(a) == a

\* A listen callback that spawns the child with the port of the kernel's
\* earlier attempt instead of the port just read from the server.
ListenCallbackStalePort(a) ==
  /\ att[a].server = "listening"
  /\ Commit([State EXCEPT !.att[a].server = "bound", !.att[a].proc = "alive",
                          !.att[a].port = AddressPort(a),
                          !.att[a].argPort = IF att[a].dupOf = 0 THEN 0
                                             ELSE att[att[a].dupOf].port,
                          !.kernel[att[a].k].process = a])

ListenCallback(a) ==
  /\ att[a].server = "listening"
  /\ LET thisPort == AddressPort(a)   \* this.port = server.address().port
     IN Commit([State EXCEPT !.att[a].server = "bound", !.att[a].proc = "alive",
                             !.att[a].port = thisPort, !.att[a].argPort = thisPort,
                             !.kernel[att[a].k].process = a])

\* The listen callback of attempt a when R cannot be launched: spawn() still
\* returns a ChildProcess, which is stored in this.process; the child emits
\* 'error' (no listener is registered for it) and never 'exit', so the promise
\* of the attempt is neither resolved nor rejected.
SpawnFails(a) ==
  /\ att[a].server = "listening"
  /\ Commit([State EXCEPT !.att[a].server = "bound", !.att[a].proc = "failed",
                          !.att[a].port = AddressPort(a), !.att[a].argPort = AddressPort(a),
                          !.kernel[att[a].k].process = a])

\* The child of attempt a connects: this.socket = socket, resolve, server.close().
\* The executeCell that awaited start() goes on with kernel.eval.
SocketConnected(a) ==
  /\ att[a].server = "bound"
  /\ att[a].proc = "alive"
  /\ LET k == att[a].k
         s == [State EXCEPT !.att[a].server = "closed", !.att[a].socket = "open",
                            !.att[a].promise = "resolved", !.att[a].waiter = 0,
                            !.kernel[k].socket = a]
         w == att[a].waiter
     IN Commit(IF w # 0 THEN KernelEval(s, k, w) ELSE s)

\* The child of attempt a exits by itself.
ProcessDies(a) ==
  /\ att[a].proc = "alive"
  /\ Commit([State EXCEPT !.att[a].proc = "dying", !.att[a].reqs = {}])

\* The 'exit' event of the child of attempt a: reject(undefined).
ProcessExit(a) ==
  /\ att[a].proc = "dying"
  /\ LET w == att[a].waiter
         s == [State EXCEPT !.att[a].proc = "exited"]
     IN Commit(IF att[a].promise = "pending"
               THEN LET s1 == [s EXCEPT !.att[a].promise = "rejected", !.att[a].waiter = 0]
                    IN IF w # 0 THEN CellStartRejected(s1, w) ELSE s1
               ELSE s)

\* An 'end' handler that leaves this.socket set.
SocketEndKeepsSocket(a) ==
  /\ att[a].socket = "open"
  /\ att[a].proc \in {"dying", "exited"}
  /\ Commit([State EXCEPT !.att[a].socket = "ended"])

\* The 'end' event of the socket of attempt a: this.socket = undefined.
SocketEnd(a) ==
  /\ att[a].socket = "open"
  /\ att[a].proc \in {"dying", "exited"}
  /\ Commit([State EXCEPT !.att[a].socket = "ended", !.kernel[att[a].k].socket = 0])

\* A 'data' event on the socket of attempt a: the child answers the request id.
\* Every data handler registered on that socket resolves its promise with it.
SocketData(a, id, type) ==
  /\ att[a].socket = "open"
  /\ att[a].proc = "alive"
  /\ id \in att[a].reqs
  /\ LET hs == {c \in DocCells : cells[c].task = "eval" /\ cells[c].on = a}
         s == [State EXCEPT !.att[a].reqs = @ \ {id}]
     IN Commit(ContinueRunAll(ResolveAll(s, hs, id, type), State, hs))

\* A 'data' event on the socket of attempt a with a Response whose id is the id
\* of no outstanding Eval request (an answer to a Cancel, a repeated answer).
\* The data handlers do not look at the id: each resolves its promise with it.
SocketStray(a, id, type) ==
  /\ att[a].socket = "open"
  /\ att[a].proc = "alive"
  /\ id \notin att[a].reqs
  /\ LET hs == {c \in DocCells : cells[c].task = "eval" /\ cells[c].on = a}
         s == ContinueRunAll(ResolveAll(State, hs, id, type), State, hs)
     IN Commit([s EXCEPT !.last = [NoCmd EXCEPT !.cmd = "data"]])

\* The run-one command on cell c.
RunOne(c) ==
  /\ notebooks # 0
  /\ cells[c].runState # "Running"
  /\ Commit(ExecuteCell(State, c, 0))

\* The run-one command on a cell that is Running.
RunOneAgain(c) ==
  /\ cells[c].runState = "Running"
  /\ Commit([ExecuteCell(State, c, 0) EXCEPT
               !.last = [NoCmd EXCEPT !.cmd = "runOne", !.cell = c, !.running = TRUE]])

\* The cancel command on cell c.
CancelOne(c) ==
  LET s == [State EXCEPT !.last = [NoCmd EXCEPT !.cmd = "cancelOne", !.cell = c,
                                      !.running = (cells[c].runState = "Running")]]
  IN /\ c \in DocCells
     /\ Commit(CancelCellExecution(s, c))

\* The cancel-all command.
CancelAll ==
  LET running == {c \in DocCells : cells[c].runState = "Running"}
      s == [State EXCEPT !.last = [NoCmd EXCEPT !.cmd = "cancelAll", !.running = (running # {})]]
  IN /\ running \subseteq DocCells
     /\ Commit(CancelAllCellsExecution(s))

\* The editor's run-all entry point executeAllCells(document).
ExecuteAllCells ==
  /\ nRunAll < MaxRunAll
  /\ LET r == nRunAll + 1
     IN Commit(ExecuteAll([State EXCEPT !.nRunAll = r], r))

\* The run-all command: executeCell(document, undefined).
RunAll ==
  /\ nRunAll < MaxRunAll
  /\ LET r == nRunAll + 1
         s == [State EXCEPT !.nRunAll = r]
         s1 == IF notebooks # 0 THEN RestartKernel(s, notebooks, "all") ELSE s
     IN Commit(ExecuteRunnable(s1, r))

\* notebook.eval resolves with the Response r for the shown cell.
EvalResolves(r) ==
  /\ cellView.runState = "Running"
  /\ cellView.resp = NoResponse
  /\ Commit([State EXCEPT !.cellView = ProjectResponse(cellView, r)])

\* readFile of the plot file settles.
ReadFileSettles(ok) ==
  /\ cellView.reading # "none"
  /\ Commit([State EXCEPT !.cellView = PlotRead(cellView, ok)])

\* The shown cell is run again: Running, outputs kept until the next Response.
RunAgain ==
  /\ cellView.runState # "Running"
  /\ Commit([State EXCEPT !.cellView = [cellView EXCEPT !.runState = "Running",
                                                        !.resp = NoResponse]])

Next ==
  \/ OpenNotebook
  \/ CloseNotebook
  \/ \E k \in Kernels, from \in {"open", "all"} : RestartContinue(k, from)
  \/ \E a \in Starts : ListenCallback(a)
  \/ \E a \in Starts : SocketConnected(a)
  \/ \E a \in Starts : ProcessDies(a)
  \/ \E a \in Starts : ProcessExit(a)
  \/ \E a \in Starts : SocketEnd(a)
  \/ \E a \in Starts, id \in 1..MaxRuns, type \in ResponseTypes : SocketData(a, id, type)
  \/ \E c \in Cells : RunOne(c)
  \/ RunAll

Spec == Init /\ [][Next]_vars

\* The program with the events of a child that cannot be launched or that
\* sends a Response nobody asked for.
NextEnv ==
  \/ OpenNotebook
  \/ CloseNotebook
  \/ \E k \in Kernels, from \in {"open", "all"} : RestartContinue(k, from)
  \/ \E a \in Starts : ListenCallback(a)
  \/ \E a \in Starts : SocketConnected(a)
  \/ \E a \in Starts : ProcessDies(a)
  \/ \E a \in Starts : ProcessExit(a)
  \/ \E a \in Starts : SocketEnd(a)
  \/ \E a \in Starts, id \in 1..MaxRuns, type \in ResponseTypes : SocketData(a, id, type)
  \/ \E c \in Cells : RunOne(c)
  \/ \E a \in Starts : SpawnFails(a)
  \/ \E a \in Starts, id \in 0..MaxRuns, type \in ResponseTypes : SocketStray(a, id, type)

SpecEnv == Init /\ [][NextEnv]_vars

\* The program with the run commands of the editor: run-one on any cell, and
\* the run-all entry point executeAllCells.
NextRun ==
  \/ OpenNotebook
  \/ CloseNotebook
  \/ \E k \in Kernels, from \in {"open", "all"} : RestartContinue(k, from)
  \/ \E a \in Starts : ListenCallback(a)
  \/ \E a \in Starts : SocketConnected(a)
  \/ \E a \in Starts : ProcessDies(a)
  \/ \E a \in Starts : ProcessExit(a)
  \/ \E a \in Starts : SocketEnd(a)
  \/ \E a \in Starts, id \in 1..MaxRuns, type \in ResponseTypes : SocketData(a, id, type)
  \/ \E c \in Cells : RunOne(c)
  \/ \E c \in DocCells : RunOneAgain(c)
  \/ ExecuteAllCells

SpecRun == Init /\ [][NextRun]_vars

\* The program with the cancel commands of the editor.
NextCancel ==
  \/ OpenNotebook
  \/ CloseNotebook
  \/ \E k \in Kernels, from \in {"open", "all"} : RestartContinue(k, from)
  \/ \E a \in Starts : ListenCallback(a)
  \/ \E a \in Starts : SocketConnected(a)
  \/ \E a \in Starts : ProcessDies(a)
  \/ \E a \in Starts : ProcessExit(a)
  \/ \E a \in Starts : SocketEnd(a)
  \/ \E a \in Starts, id \in 1..MaxRuns, type \in ResponseTypes : SocketData(a, id, type)
  \/ \E c \in Cells : RunOne(c)
  \/ \E c \in DocCells : CancelOne(c)
  \/ CancelAll

SpecCancel == Init /\ [][NextCancel]_vars

\* The projection of Responses onto one cell.
NextOutput ==
  \/ \E type \in AllResponseTypes, result \in Results : EvalResolves([type |-> type, result |-> result])
  \/ \E ok \in BOOLEAN : ReadFileSettles(ok)
  \/ RunAgain

SpecOutput == Init /\ [][NextOutput]_vars

TypeOK ==
  /\ notebooks \in 0..MaxKernels
  /\ nKernels \in 0..MaxKernels
  /\ nStarts \in 0..MaxStarts
  /\ runIndex \in 0..MaxRuns
  /\ nRunAll \in 0..MaxRunAll
  /\ \A k \in Kernels : kernel[k].process \in 0..MaxStarts /\ kernel[k].socket \in 0..MaxStarts
  /\ \A a \in Starts : att[a].k \in 0..MaxKernels /\ att[a].waiter \in {0} \cup DocCells
  /\ \A c \in DocCells : cells[c].runState \in {"Idle", "Running", "Success", "Error"}

----------------------------------------------------------------------------
(* Several documents.  The provider is one object: its registry maps each   *)
(* document to its RNotebook, runIndex is one field of the provider, and    *)
(* the handlers are the ones above, called with the document they are given *)
(* or, for a callback of a kernel, with the document that kernel was        *)
(* created for.                                                             *)

\* The state as the handlers see it when they are called for document d.
View(d) == [State EXCEPT !.notebooks = docs[d].notebooks, !.cells = docs[d].cells]

\* The result s of a handler called for document d becomes the next state.
CommitDoc(d, s) ==
  Commit([s EXCEPT !.notebooks = notebooks,
                   !.cells = cells,
                   !.docs = [docs EXCEPT ![d] =
                               [notebooks |-> s.notebooks,
                                kernels |-> IF s.nKernels > nKernels
                                            THEN docs[d].kernels \cup {s.nKernels}
                                            ELSE docs[d].kernels,
                                cells |-> s.cells]]])

\* The document a kernel was created for, and the one of a start attempt.
Owner(k) == CHOOSE d \in Docs : k \in docs[d].kernels
AttOwner(a) == Owner(att[a].k)

\* onDidOpenNotebookDocument that creates a kernel whether or not the document
\* is registered.
DocOpenNoCheck(d) ==
  /\ nKernels < MaxKernels
  /\ LET k == nKernels + 1
         v == [View(d) EXCEPT !.last = [NoCmd EXCEPT !.cmd = "open", !.doc = d],
                              !.nKernels = k, !.notebooks = k]
     IN CommitDoc(d, RestartKernel(v, k, "open"))

\* onDidOpenNotebookDocument for document d.
DocOpen(d) ==
  /\ docs[d].notebooks = 0 => nKernels < MaxKernels
  /\ LET k == nKernels + 1
         v == [View(d) EXCEPT !.last = [NoCmd EXCEPT !.cmd = "open", !.doc = d]]
     IN IF docs[d].notebooks # 0
        THEN CommitDoc(d, v)
        ELSE CommitDoc(d, RestartKernel([v EXCEPT !.nKernels = k, !.notebooks = k], k, "open"))

\* onDidCloseNotebookDocument that disposes every notebook of the registry.
RECURSIVE StopAll(_, _)
StopAll(s, ks) ==
  IF ks = {} THEN s
  ELSE LET k == CHOOSE x \in ks : TRUE IN StopAll(KernelStop(s, k), ks \ {k})

DocCloseAll(d) ==
  /\ docs[d].notebooks # 0
  /\ LET v == [View(d) EXCEPT !.last = [NoCmd EXCEPT !.cmd = "close", !.doc = d]]
     IN CommitDoc(d, [StopAll(v, {docs[e].notebooks : e \in Docs} \ {0}) EXCEPT !.notebooks = 0])

\* onDidCloseNotebookDocument for document d.
DocClose(d) ==
  /\ docs[d].notebooks # 0
  /\ LET v == [View(d) EXCEPT !.last = [NoCmd EXCEPT !.cmd = "close", !.doc = d]]
     IN CommitDoc(d, [KernelStop(v, docs[d].notebooks) EXCEPT !.notebooks = 0])

\* The clear-outputs command of a restartKernel call of kernel k completes.
DocRestartContinue(k, from) ==
  /\ restarting[k][from] > 0
  /\ LET d == Owner(k)
     IN CommitDoc(d, KernelRestart([View(d) EXCEPT !.restarting[k][from] = @ - 1], k))

\* The listen callback of attempt a.
DocListenCallback(a) ==
  /\ att[a].server = "listening"
  /\ LET d == AttOwner(a)
     IN CommitDoc(d, [View(d) EXCEPT !.att[a].server = "bound", !.att[a].proc = "alive",
                                     !.att[a].port = AddressPort(a),
                                     !.att[a].argPort = AddressPort(a),
                                     !.kernel[att[a].k].process = a])

\* The child of attempt a connects.
DocSocketConnected(a) ==
  /\ att[a].server = "bound"
  /\ att[a].proc = "alive"
  /\ LET d == AttOwner(a)
         k == att[a].k
         s == [View(d) EXCEPT !.att[a].server = "closed", !.att[a].socket = "open",
                              !.att[a].promise = "resolved", !.att[a].waiter = 0,
                              !.kernel[k].socket = a]
         w == att[a].waiter
     IN CommitDoc(d, IF w # 0 THEN KernelEval(s, k, w) ELSE s)

\* The child of attempt a exits by itself.
DocProcessDies(a) ==
  /\ att[a].proc = "alive"
  /\ LET d == AttOwner(a)
     IN CommitDoc(d, [View(d) EXCEPT !.att[a].proc = "dying", !.att[a].reqs = {}])

\* The 'exit' event of the child of attempt a.
DocProcessExit(a) ==
  /\ att[a].proc = "dying"
  /\ LET d == AttOwner(a)
         w == att[a].waiter
         s == [View(d) EXCEPT !.att[a].proc = "exited"]
     IN CommitDoc(d, IF att[a].promise = "pending"
                     THEN LET s1 == [s EXCEPT !.att[a].promise = "rejected", !.att[a].waiter = 0]
                          IN IF w # 0 THEN CellStartRejected(s1, w) ELSE s1
                     ELSE s)

\* The 'end' event of the socket of attempt a.
DocSocketEnd(a) ==
  /\ att[a].socket = "open"
  /\ att[a].proc \in {"dying", "exited"}
  /\ LET d == AttOwner(a)
     IN CommitDoc(d, [View(d) EXCEPT !.att[a].socket = "ended", !.kernel[att[a].k].socket = 0])

\* A 'data' event on the socket of attempt a.
DocSocketData(a, id, type) ==
  /\ att[a].socket = "open"
  /\ att[a].proc = "alive"
  /\ id \in att[a].reqs
  /\ LET d == AttOwner(a)
         hs == {c \in DocCells : docs[d].cells[c].task = "eval" /\ docs[d].cells[c].on = a}
         s == [View(d) EXCEPT !.att[a].reqs = @ \ {id}]
     IN CommitDoc(d, ContinueRunAll(ResolveAll(s, hs, id, type), View(d), hs))

\* The run-one command on cell c of document d.
DocRunOne(d, c) ==
  /\ docs[d].notebooks # 0
  /\ docs[d].cells[c].runState # "Running"
  /\ LET v == [View(d) EXCEPT !.last = [NoCmd EXCEPT !.cmd = "runOne", !.doc = d, !.cell = c]]
     IN CommitDoc(d, ExecuteCell(v, c, 0))

\* The cancel command on cell c of document d.
DocCancelOne(d, c) ==
  /\ docs[d].cells[c].runState = "Running"
  /\ LET v == [View(d) EXCEPT !.last = [NoCmd EXCEPT !.cmd = "cancelOne", !.doc = d, !.cell = c,
                                                     !.running = TRUE]]
     IN CommitDoc(d, CancelCellExecution(v, c))

\* The execution order the next run started in document d receives: ++this.runIndex.
NextExecutionOrder(d) == runIndex + 1

\* What belongs to document d: its registry entry, its cells, the kernels created
\* for it with their pending restarts, and the start attempts of those kernels.
DocPart(d) ==
  [notebooks |-> docs[d].notebooks,
   cells |-> docs[d].cells,
   kernels |-> [k \in docs[d].kernels |-> <<kernel[k], restarting[k]>>],
   attempts |-> [a \in {b \in Starts : att[b].k \in docs[d].kernels} |-> att[a]]]

\* Each document has cell 1 run and cancelled.
NextDocs ==
  \/ \E d \in Docs : DocOpen(d)
  \/ \E d \in Docs : DocClose(d)
  \/ \E k \in Kernels, from \in {"open", "all"} : DocRestartContinue(k, from)
  \/ \E a \in Starts : DocListenCallback(a)
  \/ \E a \in Starts : DocSocketConnected(a)
  \/ \E a \in Starts : DocProcessDies(a)
  \/ \E a \in Starts : DocProcessExit(a)
  \/ \E a \in Starts : DocSocketEnd(a)
  \/ \E a \in Starts, id \in 1..MaxRuns, type \in ResponseTypes : DocSocketData(a, id, type)
  \/ \E d \in Docs : DocRunOne(d, 1)
  \/ \E d \in Docs : DocCancelOne(d, 1)

SpecDocs == Init /\ [][NextDocs]_vars

----------------------------------------------------------------------------
(* The bytes of one connection.  The child writes each Response as one JSON  *)
(* text; the socket hands the host the bytes in reads of any size.           *)

\* The JSON text of the Response with id i, as a sequence of bytes: the opening
\* brace (written 0), the members (written i), the closing brace (MaxResponses + 1).
ResponseText(i) == <<0, i, MaxResponses + 1>>

\* JSON.parse(data.toString()): the id of the Response when the bytes are exactly
\* one JSON text, 0 when JSON.parse throws a SyntaxError.
JsonParse(chunk) ==
  IF Len(chunk) = 3 /\ chunk[1] = 0 /\ chunk[3] = MaxResponses + 1 /\ chunk[2] \in 1..MaxResponses
  THEN chunk[2] ELSE 0

\* One 'data' event with the n next bytes: every registered handler parses
\* them; on success it resolves its eval and removes itself, on a SyntaxError
\* the async handler rejects and stays registered.
DataEvent(f, n) ==
  LET chunk == SubSeq(f.unread, 1, n)
      f1 == [f EXCEPT !.unread = SubSeq(f.unread, n + 1, Len(f.unread))]
  IN IF f.handlers = 0 THEN [f1 EXCEPT !.dropped = TRUE]
     ELSE IF JsonParse(chunk) # 0
     THEN [f1 EXCEPT !.delivered = Append(@, JsonParse(chunk)), !.handlers = 0]
     ELSE [f1 EXCEPT !.faults = @ + f.handlers]

\* RKernel.eval registers its data handler on the connection.
EvalRegisters ==
  /\ stream.evals < MaxResponses
  /\ Commit([State EXCEPT !.stream.handlers = @ + 1, !.stream.evals = @ + 1])

\* The child writes the Response to the next request it has not answered.
ChildWrites ==
  /\ Len(stream.sent) < stream.evals
  /\ LET i == Len(stream.sent) + 1
     IN Commit([State EXCEPT !.stream.sent = Append(@, i),
                             !.stream.unread = @ \o ResponseText(i)])

\* The socket emits 'data' with the next n bytes.
SocketRead(n) ==
  /\ n <= Len(stream.unread)
  /\ Commit([State EXCEPT !.stream = DataEvent(stream, n)])

NextStream ==
  \/ EvalRegisters
  \/ ChildWrites
  \/ \E n \in 1..(3 * MaxResponses) : SocketRead(n)

SpecStream == Init /\ [][NextStream]_vars

----------------------------------------------------------------------------
(* The frame of a request.  A string is a sequence of characters; each      *)
(* character has a number of UTF-16 code units (what String.length counts)  *)
(* and a number of bytes in UTF-8 (what socket.write sends).                *)

\* Characters of a cell's text: an ASCII letter, the double quote, and
\* characters of two, three and four UTF-8 bytes.
Chars == {"a", "quote", "eacute", "euro", "emoji"}

Utf16Units(ch) == IF ch = "emoji" THEN 2 ELSE 1

Utf8Bytes(ch) ==
  CASE ch = "eacute" -> 2
    [] ch = "euro" -> 3
    [] ch = "emoji" -> 4
    [] OTHER -> 1

\* String.length of a string.
RECURSIVE StringLength(_)
StringLength(str) ==
  IF str = <<>> THEN 0 ELSE Utf16Units(Head(str)) + StringLength(Tail(str))

\* Number of bytes socket.write sends for a string (UTF-8).
RECURSIVE ByteLength(_)
ByteLength(str) ==
  IF str = <<>> THEN 0 ELSE Utf8Bytes(Head(str)) + ByteLength(Tail(str))

\* The characters of a string inside a JSON text: the quote is escaped, the
\* other characters are written as they are.
RECURSIVE JsonEscape(_)
JsonEscape(str) ==
  IF str = <<>> THEN <<>>
  ELSE (IF Head(str) = "quote" THEN <<"backslash", "quote">> ELSE <<Head(str)>>)
       \o JsonEscape(Tail(str))

\* JSON.stringify(request): {"id":N,"type":"eval","expr":"..."} or, for a
\* cancel, {"id":N,"type":"cancel"}.
JsonStringify(req) ==
  <<"{", "quote", "i", "d", "quote", ":", ToString(req.id), ",",
    "quote", "t", "y", "p", "e", "quote", ":", "quote">>
  \o (IF req.type = "eval" THEN <<"e", "v", "a", "l">> ELSE <<"c", "a", "n", "c", "e", "l">>)
  \o <<"quote">>
  \o (IF req.type = "eval"
      THEN <<",", "quote", "e", "x", "p", "r", "quote", ":", "quote">>
           \o JsonEscape(req.expr) \o <<"quote">>
      ELSE <<>>)
  \o <<"}">>

\* RKernel.request: `Content-Length: ${json.length}\n${json}`.
KernelRequest(req) ==
  LET json == JsonStringify(req)
  IN [contentLength |-> StringLength(json), payload |-> json]

\* The texts of at most MaxExprLen characters.
Exprs == UNION {[1..n -> Chars] : n \in 0..MaxExprLen}

\* The kernel writes a request.
WriteRequest(id, type, expr) ==
  /\ type = "cancel" => expr = <<>>
  /\ Commit([State EXCEPT !.wire = KernelRequest([id |-> id, type |-> type, expr |-> expr])])

NextWire ==
  \E id \in 0..MaxRuns, type \in {"eval", "cancel"}, expr \in Exprs : WriteRequest(id, type, expr)

SpecWire == Init /\ [][NextWire]_vars

----------------------------------------------------------------------------
(* The document file: openNotebook reads it into cells, save writes it back *)

\* A text is a sequence of characters.  "nl" is the newline; each other
\* value stands for the whole content of one line of one sort: plain text,
\* the front-matter delimiter, an opening fence of the R language without
\* and with chunk options, an opening fence of the Ruby language, and the
\* closing fence; "fence" is written for the three backquotes.  There is
\* no carriage return among them, so split(/\r?\n/) splits at "nl".
LineTexts == {"t", "---", "fence{r}", "fence{r echo}", "fence{ruby}", "fence"}

\* The prefixes openNotebook tests with startsWith that a line text has.
Prefixes(ch) ==
  IF ch = "---" THEN {"---"}
  ELSE IF ch \in {"fence{r}", "fence{r echo}", "fence{ruby}"} THEN {"fence{r", "fence"}
  ELSE IF ch \in {"fence", "fence{"} THEN {"fence"}
  ELSE {}

\* lines[line].startsWith(prefix)
StartsWith(l, prefix) == l # <<>> /\ prefix \in Prefixes(Head(l))

\* content.split(/\r?\n/): the lines of a text; the empty text has one empty line.
RECURSIVE SplitFrom(_, _, _)
SplitFrom(str, cur, acc) ==
  IF str = <<>> THEN Append(acc, cur)
  ELSE IF Head(str) = "nl" THEN SplitFrom(Tail(str), <<>>, Append(acc, cur))
  ELSE SplitFrom(Tail(str), Append(cur, Head(str)), acc)

Split(str) == SplitFrom(str, <<>>, <<>>)

\* lines.join('\n')
RECURSIVE Join(_)
Join(ls) ==
  IF ls = <<>> THEN <<>>
  ELSE IF Len(ls) = 1 THEN ls[1]
  ELSE ls[1] \o <<"nl">> \o Join(Tail(ls))

\* lines.slice(from, to), with the indices of the code (the first line is 0).
Slice(ls, from, to) == SubSeq(ls, from + 1, to)

\* metadata.custom of a cell: undefined, or the header and footer lines.
NoCustom == <<>>
Custom(header, footer) == <<[header |-> header, footer |-> footer]>>

MarkdownCell(source) ==
  [cellKind |-> "Markdown", language |-> "markdown", source |-> source,
   runnable |-> FALSE, custom |-> NoCustom]

YamlCell(source) ==
  [cellKind |-> "Code", language |-> "yaml", source |-> source,
   runnable |-> FALSE, custom |-> NoCustom]

\* An R cell that keeps the default fence lines instead of the lines read.
RCellDefaultFence(source, header, footer) ==
  [cellKind |-> "Code", language |-> "r", source |-> source,
   runnable |-> TRUE, custom |-> Custom(<<"fence{r}">>, <<"fence">>)]

RCell(source, header, footer) ==
  [cellKind |-> "Code", language |-> "r", source |-> source,
   runnable |-> TRUE, custom |-> Custom(header, footer)]

\* One turn of the scanner loop of openNotebook, at index line (from 0):
\* the scanner's cellType, cellStartLine and cells after it.
ScanLine(lines, line, p) ==
  LET l == lines[line + 1]
      pending == IF line > p.cellStartLine
                 THEN Append(p.cells, MarkdownCell(Join(Slice(lines, p.cellStartLine, line))))
                 ELSE p.cells
  IN
  IF p.cellType = "markdown" THEN
    IF StartsWith(l, "---") THEN [p EXCEPT !.cellType = "yaml", !.cellStartLine = line]
    ELSE IF StartsWith(l, "fence{r")
      THEN [cellType |-> "r", cellStartLine |-> line, cells |-> pending]
    ELSE IF line = Len(lines) - 1 THEN [p EXCEPT !.cells = pending]
    ELSE p
  ELSE IF p.cellType = "yaml" THEN
    IF StartsWith(l, "---")
    THEN [cellType |-> "markdown", cellStartLine |-> line + 1,
          cells |-> Append(p.cells, YamlCell(Join(Slice(lines, p.cellStartLine, line + 1))))]
    ELSE p
  ELSE
    IF StartsWith(l, "fence")
    THEN [cellType |-> "markdown", cellStartLine |-> line + 1,
          cells |-> Append(p.cells, RCell(Join(Slice(lines, p.cellStartLine + 1, line)),
                                          lines[p.cellStartLine + 1], l))]
    ELSE p

\* while (line < lines.length) { ...; line++ }
RECURSIVE ScanFrom(_, _, _)
ScanFrom(lines, line, p) ==
  IF line < Len(lines) THEN ScanFrom(lines, line + 1, ScanLine(lines, line, p))
  ELSE p.cells

\* openNotebook: the cells of the file's content.
ParseNotebook(content) ==
  ScanFrom(Split(content), 0, [cellType |-> "markdown", cellStartLine |-> 0, cells |-> <<>>])

\* What save appends to the content for one cell; cell.document.getText()
\* is the cell's source.
SaveCell(cell) ==
  IF cell.cellKind = "Markdown" THEN cell.source \o <<"nl">>
  ELSE IF cell.language = "r" THEN
    LET custom == IF cell.custom = NoCustom THEN Custom(<<"fence{r}">>, <<"fence">>)
                  ELSE cell.custom
    IN custom[1].header \o <<"nl">> \o cell.source \o <<"nl">> \o custom[1].footer \o <<"nl">>
  ELSE IF cell.language = "yaml" THEN cell.source \o <<"nl", "nl">>
  ELSE <<"fence{", cell.language, "}", "nl">> \o cell.source \o <<"nl", "fence", "nl">>

\* save: the content written for the cells, in order.
RECURSIVE SaveContent(_)
SaveContent(cs) ==
  IF cs = <<>> THEN <<>> ELSE SaveCell(Head(cs)) \o SaveContent(Tail(cs))

\* The lines a file can have.
FileLines == {<<>>} \cup {<<ch>> : ch \in LineTexts}

\* The texts of at most MaxLines lines.
Documents == {Join(ls) : ls \in UNION {[1..n -> FileLines] : n \in 1..MaxLines}}

\* A file is written to disk outside the editor.
WriteFile ==
  /\ file.phase = "none"
  /\ \E text \in Documents :
       Commit([State EXCEPT !.file = [NoFile EXCEPT !.phase = "closed", !.content = text,
                                                    !.original = text]])

\* The editor opens the file: openNotebook.  The cells of the first open are
\* remembered.
OpenFile ==
  /\ file.phase \in {"closed", "saved"}
  /\ LET cs == ParseNotebook(file.content)
     IN Commit([State EXCEPT !.file = [file EXCEPT
                  !.phase = IF file.phase = "closed" THEN "open" ELSE "reopened",
                  !.cells = cs,
                  !.first = IF file.phase = "closed" THEN cs ELSE file.first]])

\* The editor saves the unedited notebook: save.  A save that is cancelled
\* returns before it writes.
SaveFile ==
  /\ file.phase = "open"
  /\ \E isCancellationRequested \in BOOLEAN :
       Commit([State EXCEPT !.file =
                 IF isCancellationRequested THEN file
                 ELSE [file EXCEPT !.phase = "saved", !.content = SaveContent(file.cells)]])

NextFile ==
  \/ WriteFile
  \/ OpenFile
  \/ SaveFile

SpecFile == Init /\ [][NextFile]_vars

----------------------------------------------------------------------------
(* R Markdown chunks in the text editor (rmarkdown.ts) *)

\* The lines of a document in the text editor: empty, plain text, the
\* opening fence of a chunk and the closing fence.
RmdLines == {<<>>, <<"t">>, <<"fence{r}">>, <<"fence">>}

\* The texts of at most MaxRmdLines lines.
RmdTexts == {Join(ls) : ls \in UNION {[1..n -> RmdLines] : n \in 1..MaxRmdLines}}

\* isChunkStartLine: the line matches /^\s*```+\s*\{\w+\s*.*$/
IsChunkStartLine(l) == l # <<>> /\ Head(l) \in {"fence{r}", "fence{r echo}", "fence{ruby}"}

\* isChunkEndLine: the line matches /^\s*```+\s*$/
IsChunkEndLine(l) == l = <<"fence">>

\* undefined where a chunk is expected.
NoChunk == [id |-> 0, startLine |-> -1, endLine |-> -1, code |-> <<>>]

\* document.getText(codeRange) of the chunk from startLine to endLine: the
\* lines between the fences; for a chunk without such lines the range runs
\* backwards and is the newline after the opening fence.
CodeText(lines, startLine, endLine) ==
  IF endLine - 1 >= startLine + 1 THEN Join(Slice(lines, startLine + 1, endLine))
  ELSE <<"nl">>

\* One turn of the loop of getChunks at index line (from 0); chunkStartLine
\* is -1 for undefined.
ChunkScanLine(lines, line, p) ==
  LET l == lines[line + 1] IN
  IF p.chunkStartLine = -1 THEN
    IF IsChunkStartLine(l)
    THEN [p EXCEPT !.chunkId = @ + 1, !.chunkStartLine = line]
    ELSE p
  ELSE
    IF IsChunkEndLine(l)
    THEN [p EXCEPT !.chunkStartLine = -1,
                   !.chunks = Append(@, [id |-> p.chunkId, startLine |-> p.chunkStartLine,
                                         endLine |-> line,
                                         code |-> CodeText(lines, p.chunkStartLine, line)])]
    ELSE p

RECURSIVE ChunkScanFrom(_, _, _)
ChunkScanFrom(lines, line, p) ==
  IF line < Len(lines) THEN ChunkScanFrom(lines, line + 1, ChunkScanLine(lines, line, p))
  ELSE p.chunks

\* getChunks: the chunks of the document, numbered from 1.
GetChunks(text) ==
  ChunkScanFrom(Split(text), 0, [chunkId |-> 0, chunkStartLine |-> -1, chunks |-> <<>>])

\* chunks.filter(e => e.id === id)[0]
ChunkById(chunks, id) ==
  LET found == SelectSeq(chunks, LAMBDA e : e.id = id)
  IN IF found = <<>> THEN NoChunk ELSE found[1]

\* chunks.filter(i => i.startLine === line)[0]
ChunkByStartLine(chunks, line) ==
  LET found == SelectSeq(chunks, LAMBDA e : e.startLine = line)
  IN IF found = <<>> THEN NoChunk ELSE found[1]

\* The index at or above from of the last chunk start line, -1 if none.
RECURSIVE LastStartAtOrAbove(_, _)
LastStartAtOrAbove(lines, from) ==
  IF from < 0 THEN -1
  ELSE IF IsChunkStartLine(lines[from + 1]) THEN from
  ELSE LastStartAtOrAbove(lines, from - 1)

\* The index at or above from of the last chunk end line, -1 if none.
RECURSIVE LastEndAtOrAbove(_, _)
LastEndAtOrAbove(lines, from) ==
  IF from < 0 THEN -1
  ELSE IF IsChunkEndLine(lines[from + 1]) THEN from
  ELSE LastEndAtOrAbove(lines, from - 1)

\* The index at or below from of the first chunk start line; beyond the last
\* line lines[i] is undefined and isChunkStartLine throws: Len(lines).
RECURSIVE FirstStartAtOrBelow(_, _)
FirstStartAtOrBelow(lines, from) ==
  IF from >= Len(lines) THEN Len(lines)
  ELSE IF IsChunkStartLine(lines[from + 1]) THEN from
  ELSE FirstStartAtOrBelow(lines, from + 1)

\* A function's outcome: it threw, or it returned a chunk (or undefined).
Threw == [threw |-> TRUE, chunk |-> NoChunk]
Returned(chunk) == [threw |-> FALSE, chunk |-> chunk]

\* getCurrentChunk
GetCurrentChunk(chunks, lines, line) ==
  LET chunkStartLineAtOrAbove == LastStartAtOrAbove(lines, line)
      chunkEndLineAbove == LastEndAtOrAbove(lines, line - 1)
      chunkStartLineBelow == FirstStartAtOrBelow(lines, line + 1)
  IN IF chunkEndLineAbove < chunkStartLineAtOrAbove
     THEN Returned(ChunkByStartLine(chunks, chunkStartLineAtOrAbove))
     ELSE IF chunkStartLineBelow = Len(lines) THEN Threw
     ELSE Returned(ChunkByStartLine(chunks, chunkStartLineBelow))

\* getPreviousChunk; reading currentChunk.endLine of undefined throws.
GetPreviousChunk(chunks, lines, line) ==
  LET cur == GetCurrentChunk(chunks, lines, line)
  IN IF cur.threw \/ cur.chunk = NoChunk THEN Threw
     ELSE Returned(ChunkById(chunks, IF cur.chunk.endLine < line THEN cur.chunk.id
                                     ELSE cur.chunk.id - 1))

\* getNextChunk
GetNextChunk(chunks, lines, line) ==
  LET cur == GetCurrentChunk(chunks, lines, line)
  IN IF cur.threw \/ cur.chunk = NoChunk THEN Threw
     ELSE Returned(ChunkById(chunks, IF line < cur.chunk.startLine THEN cur.chunk.id
                                     ELSE cur.chunk.id + 1))

\* String.prototype.trim on a text whose only white space is the newline.
RECURSIVE Trim(_)
Trim(str) ==
  IF str = <<>> THEN <<>>
  ELSE IF Head(str) = "nl" THEN Trim(Tail(str))
  ELSE IF str[Len(str)] = "nl" THEN Trim(SubSeq(str, 1, Len(str) - 1))
  ELSE str

\* The codes of the chunks with ids from..to, in that order.
RECURSIVE CodeRanges(_, _, _)
CodeRanges(chunks, from, to) ==
  IF from > to THEN <<>>
  ELSE <<ChunkById(chunks, from).code>> \o CodeRanges(chunks, from + 1, to)

\* runChunksInTerm: the text passed to runTextInTerm, the trimmed non-empty
\* codes joined by newlines; empty when runTextInTerm is not called.
ChunksText(codes) ==
  Join(SelectSeq([i \in 1..Len(codes) |-> Trim(codes[i])], LAMBDA code : code # <<>>))

\* What a command did: whether it threw, whether its call of getPreviousChunk
\* or getNextChunk did, the id of the chunk that call returned (0: undefined)
\* and the text passed to runTextInTerm.
NoRmdCmd == [cmd |-> "none", threw |-> FALSE, lookupThrew |-> FALSE, chunk |-> 0, sent |-> <<>>]

\* A document is opened in the text editor, the cursor on its first line.
RmdOpen ==
  /\ rmd.phase = "none"
  /\ \E text \in RmdTexts :
       Commit([State EXCEPT !.rmd = [phase |-> "open", text |-> text, line |-> 0,
                                     last |-> NoRmdCmd]])

\* The user moves the cursor to line l.
RmdMoveCursor(l) ==
  /\ rmd.phase = "open"
  /\ l \in 0..(Len(Split(rmd.text)) - 1)
  /\ l # rmd.line
  /\ Commit([State EXCEPT !.rmd.line = l, !.rmd.last = NoRmdCmd])

\* goToChunk after a lookup: the cursor on the line after the chunk's start
\* line; reading startLine of undefined throws.
GoTo(cmd, found) ==
  IF found.threw \/ found.chunk = NoChunk
  THEN [rmd EXCEPT !.last = [NoRmdCmd EXCEPT !.cmd = cmd, !.threw = TRUE,
                                             !.lookupThrew = found.threw]]
  ELSE [rmd EXCEPT !.line = found.chunk.startLine + 1,
                   !.last = [NoRmdCmd EXCEPT !.cmd = cmd, !.chunk = found.chunk.id]]

\* goToPreviousChunk
GoToPreviousChunk ==
  /\ rmd.phase = "open"
  /\ Commit([State EXCEPT !.rmd =
       GoTo("goToPreviousChunk", GetPreviousChunk(GetChunks(rmd.text), Split(rmd.text), rmd.line))])

\* goToNextChunk
GoToNextChunk ==
  /\ rmd.phase = "open"
  /\ Commit([State EXCEPT !.rmd =
       GoTo("goToNextChunk", GetNextChunk(GetChunks(rmd.text), Split(rmd.text), rmd.line))])

\* runAboveChunks: the chunks 1..previousChunk.id; reading id of undefined throws.
RunAboveChunks ==
  /\ rmd.phase = "open"
  /\ LET chunks == GetChunks(rmd.text)
         found == GetPreviousChunk(chunks, Split(rmd.text), rmd.line)
     IN Commit([State EXCEPT !.rmd.last =
          IF found.threw \/ found.chunk = NoChunk
          THEN [NoRmdCmd EXCEPT !.cmd = "runAboveChunks", !.threw = TRUE,
                                !.lookupThrew = found.threw]
          ELSE [NoRmdCmd EXCEPT !.cmd = "runAboveChunks", !.chunk = found.chunk.id,
                                !.sent = ChunksText(CodeRanges(chunks, 1, found.chunk.id))]])

\* runBelowChunks: the chunks nextChunk.id..chunks.length.
RunBelowChunks ==
  /\ rmd.phase = "open"
  /\ LET chunks == GetChunks(rmd.text)
         found == GetNextChunk(chunks, Split(rmd.text), rmd.line)
     IN Commit([State EXCEPT !.rmd.last =
          IF found.threw \/ found.chunk = NoChunk
          THEN [NoRmdCmd EXCEPT !.cmd = "runBelowChunks", !.threw = TRUE,
                                !.lookupThrew = found.threw]
          ELSE [NoRmdCmd EXCEPT !.cmd = "runBelowChunks", !.chunk = found.chunk.id,
                                !.sent = ChunksText(CodeRanges(chunks, found.chunk.id,
                                                               Len(chunks)))]])

NextRmd ==
  \/ RmdOpen
  \/ \E l \in 0..(MaxRmdLines - 1) : RmdMoveCursor(l)
  \/ GoToPreviousChunk
  \/ GoToNextChunk
  \/ RunAboveChunks
  \/ RunBelowChunks

SpecRmd == Init /\ [][NextRmd]_vars

----------------------------------------------------------------------------
(* The R terminal: chooseTerminal, createRTerm, runTextInTerm *)

\* The names terminals have: the one createRTerm gives, one the user gives
\* an R terminal of their own, and another terminal.
TerminalNames == {"R Interactive", "R", "bash"}
rTermNameOptions == {"R", "R Interactive"}

\* The texts sent, each of one line.
Texts == {"x1", "x2"}

\* No run of runTextInTerm under way.  pc: none, delay (chooseTerminal waits
\* 200 ms after createRTerm), send (waiting rtermSendDelay before sendText),
\* done.  outcome: sent (sendText called on terminal sentTo) or dropped.
NoRun ==
  [pc |-> "none", text |-> "none", outcome |-> "none", sentTo |-> 0,
   emptyAtStart |-> FALSE,   \* no terminal was open and rTerm was undefined at the call
   created |-> FALSE,        \* the terminal asked for by this run was created before it ended
   bracketedPaste |-> FALSE] \* the setting read by this run

\* runTextInTerm once chooseTerminal returned terminal i (0: undefined):
\* with bracketedPaste the text is sent at once, otherwise after a delay.
SendTo(t, i, bracketedPaste) ==
  IF i = 0 THEN [t EXCEPT !.run.pc = "done", !.run.outcome = "dropped"]
  ELSE IF bracketedPaste
    THEN [t EXCEPT !.run.pc = "done", !.run.outcome = "sent", !.run.sentTo = i, !.active = i]
  ELSE [t EXCEPT !.run.pc = "send", !.run.sentTo = i]

\* The index of the last terminal with an R name, 0 if there is none.
RECURSIVE LastRTerminal(_, _)
LastRTerminal(terminals, i) ==
  IF i = 0 THEN 0
  ELSE IF terminals[i] \in rTermNameOptions THEN i
  ELSE LastRTerminal(terminals, i - 1)

\* createRTerm up to its return: without a path it returns undefined;
\* with one it hands the path to pathExists, whose callback runs later, and
\* returns undefined as well (the callback's true or false goes to pathExists).
CreateRTerm(t, termPath) ==
  IF termPath = "undefined" THEN [t EXCEPT !.success = "undefined"]
  ELSE [t EXCEPT !.pathExists = "pending", !.success = "undefined"]

\* chooseTerminal from its last part on: rTerm undefined, so createRTerm is
\* called and the 200 ms delay awaited; otherwise rTerm is returned.
ChooseRTerm(t, termPath, bracketedPaste) ==
  IF t.rTerm = 0
  THEN [CreateRTerm(t, termPath) EXCEPT !.run.pc = "delay"]
  ELSE SendTo(t, t.rTerm, bracketedPaste)

\* chooseTerminal and what runTextInTerm does with its result, up to the
\* first timer awaited.
ChooseTerminal(t, alwaysUseActiveTerminal, termPath, bracketedPaste) ==
  LET n == Len(t.terminals)
      found == LastRTerminal(t.terminals, n)
  IN
  IF alwaysUseActiveTerminal THEN
    IF n < 1 THEN SendTo(t, 0, bracketedPaste) ELSE SendTo(t, t.active, bracketedPaste)
  ELSE IF n > 0 THEN
    IF t.active # 0 THEN
      IF t.terminals[t.active] \in rTermNameOptions THEN SendTo(t, t.active, bracketedPaste)
      ELSE IF found # 0 THEN SendTo([t EXCEPT !.active = found], found, bracketedPaste)
      ELSE ChooseRTerm(t, termPath, bracketedPaste)
    ELSE IF n = 1 THEN
      IF t.terminals[1] \in rTermNameOptions THEN SendTo(t, 1, bracketedPaste)
      ELSE ChooseRTerm(t, termPath, bracketedPaste)
    ELSE SendTo(t, 0, bracketedPaste)
  ELSE ChooseRTerm(t, termPath, bracketedPaste)

\* runTextInTerm is called with a text; the settings and the path of the R
\* executable that getRterm finds are as the environment has them.
RunTextInTerm(text) ==
  /\ term.run.pc \in {"none", "done"}
  /\ term.runs < MaxTermRuns
  /\ \E alwaysUseActiveTerminal \in BOOLEAN, bracketedPaste \in BOOLEAN,
        termPath \in {"undefined", "path"} :
       LET t == [term EXCEPT !.runs = @ + 1,
                             !.run = [NoRun EXCEPT !.text = text,
                                        !.bracketedPaste = bracketedPaste,
                                        !.emptyAtStart = (term.terminals = <<>> /\ term.rTerm = 0
                                                          /\ ~alwaysUseActiveTerminal
                                                          /\ termPath = "path")]]
       IN Commit([State EXCEPT !.term = ChooseTerminal(t, alwaysUseActiveTerminal, termPath,
                                                       bracketedPaste)])

\* The callback of pathExists: if the path exists the terminal is created,
\* stored in rTerm and shown; the editor may or may not make it the active
\* terminal.
PathExistsCallback(exists, activated) ==
  /\ term.pathExists = "pending"
  /\ exists => Len(term.terminals) < MaxTerminals
  /\ ~exists => ~activated
  /\ Commit([State EXCEPT !.term =
       IF exists
       THEN [term EXCEPT !.pathExists = "none",
                         !.terminals = Append(@, "R Interactive"),
                         !.rTerm = Len(term.terminals) + 1,
                         !.active = IF activated THEN Len(term.terminals) + 1 ELSE @,
                         !.run.created = (term.run.pc = "delay")]
       ELSE [term EXCEPT !.pathExists = "none"]])

\* The 200 ms after createRTerm are over: chooseTerminal returns undefined
\* unless success is true, and rTerm otherwise.
DelayElapsed ==
  /\ term.run.pc = "delay"
  /\ Commit([State EXCEPT !.term =
       IF term.success # "true" THEN SendTo(term, 0, term.run.bracketedPaste)
       ELSE SendTo(term, term.rTerm, term.run.bracketedPaste)])

\* rtermSendDelay is over: term.sendText(line), then setFocus.
SendLine ==
  /\ term.run.pc = "send"
  /\ Commit([State EXCEPT !.term = [term EXCEPT !.run.pc = "done", !.run.outcome = "sent",
                                                !.active = term.run.sentTo]])

\* The user opens a terminal in the editor.
UserOpensTerminal(name, activated) ==
  /\ Len(term.terminals) < MaxTerminals
  /\ Commit([State EXCEPT !.term = [term EXCEPT
       !.terminals = Append(@, name),
       !.active = IF activated THEN Len(term.terminals) + 1 ELSE @]])

NextTerm ==
  \/ \E text \in Texts : RunTextInTerm(text)
  \/ \E exists \in BOOLEAN, activated \in BOOLEAN : PathExistsCallback(exists, activated)
  \/ DelayElapsed
  \/ SendLine
  \/ \E name \in {"R", "bash"}, activated \in BOOLEAN : UserOpensTerminal(name, activated)

SpecTerm == Init /\ [][NextTerm]_vars

----------------------------------------------------------------------------
(* Claims *)

\* The executeCell call on cell c is waiting for a Response.
EvalPending(c) == cells[c].task = "eval"

\* C1: at most one interpreter subprocess is alive for the document at any time,
\* and no kernel has two start attempts in progress at once.
C1_OneProcessPerDocument ==
  /\ Cardinality({a \in Starts : att[a].proc = "alive"}) <= 1
  /\ \A k \in Kernels :
       Cardinality({a \in Starts : att[a].k = k /\ InFlight(State, a)}) <= 1

\* C2: a start() call made while an earlier start() of the same kernel is still
\* in flight spawns no second subprocess: of the two attempts at most one has
\* spawned a child.
C2_StartCoalesces ==
  \A b \in Starts :
    att[b].dupOf # 0 => ~(att[b].proc # "none" /\ att[att[b].dupOf].proc # "none")

\* C3: an eval is resolved only by the Response that carries its own id (the
\* cell's executionOrder), never by the Response to another request.
C3_ResponseCorrelated ==
  \A c \in Cells : cells[c].resp # 0 => cells[c].resp = cells[c].executionOrder

\* C4: the exit notification of a subprocess that exited by itself rejects every
\* eval pending on its connection: no eval that was pending before the 'exit'
\* handler ran is still pending after it.
C4_ExitRejectsPending ==
  [][\A a \in Starts :
       (att[a].proc = "dying" /\ ~att[a].killed /\ att'[a].proc = "exited")
         => \A c \in Cells : (EvalPending(c) /\ cells[c].on = a) => cells'[c].task # "eval"]_vars

\* C5: stop() (alone, in restart() or in dispose()) fails every eval pending on
\* the kernel: no eval of that kernel pending before the call is pending after it.
C5_StopFailsPending ==
  [][\A a \in Starts :
       (~att[a].killed /\ att'[a].killed)
         => \A c \in Cells :
              (EvalPending(c) /\ att[cells[c].on].k = att[a].k) => cells'[c].task # "eval"]_vars

\* A run-all invocation is waiting for one of its cells.
RunAllActive == \E c \in Cells : cells[c].ra # 0 /\ cells[c].task # "none"

C7_RestartBeforeEval ==
  \A c \in Cells :
    (EvalPending(c) /\ cells[c].ra # 0) => \A k \in Kernels : restarting[k].all = 0

\* C8: a cell completes (Success or Error) only after an Eval request for it was
\* written to an established connection.
C8_CompletesAfterEval ==
  \A c \in Cells :
    cells[c].runState \in {"Success", "Error"} => cells[c].evalReady

\* C9: RKernel.eval called without an established connection is rejected.
C9_EvalNotReadyRejects ==
  \A c \in Cells :
    (cells[c].evalResult # "none" /\ ~cells[c].evalReady) => cells[c].evalResult = "rejected"

\* C10: while the document is closed no interpreter subprocess is alive for it.
C10_NoProcessWhenClosed ==
  notebooks = 0 => \A a \in Starts : att[a].proc # "alive"

\* C11: stop() works in every kernel state: whatever state a kernel has
\* reached, a stop() called there leaves it with no process handle and no
\* connection, and a second stop() right after it changes nothing.
C11_StopClearsKernel ==
  \A k \in Kernels :
    LET s == KernelStop(State, k)
    IN /\ s.kernel[k] = NewKernel
       /\ KernelStop(s, k) = s

\* C12: once the 'exit' event of a kernel's child has been delivered, no Eval
\* request is written to the connection of that child: a cell's eval is never
\* sent on (and left waiting on) the socket of an exited process.
C12_NoEvalAfterExit ==
  [][\A c \in Cells :
       (~EvalPending(c) /\ EvalPending(c)') => att'[cells'[c].on].proc # "exited"]_vars

\* C13: when the subprocess of a start attempt cannot be launched, the kernel
\* holds no handle to it and the attempt's promise is not left pending (the
\* start() call fails).
C13_SpawnFailureLeavesStopped ==
  \A a \in Starts :
    att[a].proc = "failed" =>
      /\ kernel[att[a].k].process # a
      /\ att[a].promise # "pending"

\* C14: a Response whose id matches no pending Eval is dropped: every eval that
\* was pending when it arrived is still pending afterwards, and no cell changes.
C14_UnmatchedResponseDropped ==
  [][last'.cmd = "data" =>
       /\ \A c \in DocCells : EvalPending(c) => EvalPending(c)'
       /\ cells' = cells]_vars

\* C15: the run-one command on a cell that is Running is a no-op: no Eval
\* request is written, no start attempt is made, and the cell's execution order
\* and run state, every other cell and the execution counter are unchanged.
C15_RunOneOnRunningNoOp ==
  [][(last'.cmd = "runOne" /\ last'.running) =>
       UNCHANGED <<cells, runIndex, att, nStarts, kernel, restarting, notebooks>>]_vars

\* The run-one command was given for a cell whose eval is pending.
C15_Witness ==
  /\ last.cmd = "runOne"
  /\ last.running
  /\ cells[last.cell].runState = "Running"
  /\ EvalPending(last.cell)

\* C16: the run-all entry points never issue an Eval request for a cell that is
\* not a runnable code cell (the yaml front-matter cell), and never put such a
\* cell in the Running state.
C16_RunAllSkipsNonRunnable ==
  \A c \in DocCells :
    ~Runnable(c) => (cells[c].reqId = 0 /\ cells[c].runState # "Running")

\* C17: when eval resolves with a Response r, the cell's run state becomes Error
\* if r.type is error and Success otherwise; for the types text, viewer, browser
\* and error the cell then has exactly one output, whose payload is r.result;
\* for a plot whose file is read, exactly one output holding the file's content,
\* with the run state left as it was.
C17_ResponseProjected ==
  [][/\ (cellView.resp = NoResponse /\ cellView'.resp # NoResponse) =>
          /\ cellView'.runState = IF cellView'.resp.type = "error" THEN "Error" ELSE "Success"
          /\ cellView'.resp.type # "plot" =>
               /\ Len(cellView'.outputs) = 1
               /\ cellView'.outputs[1].payload = cellView'.resp.result
               /\ cellView'.outputs[1].kind =
                    CASE cellView'.resp.type = "text" -> "Text"
                      [] cellView'.resp.type = "error" -> "Error"
                      [] OTHER -> "Rich"
     /\ (cellView.reading # "none" /\ cellView'.reading = "none" /\ cellView'.readOk) =>
          /\ cellView'.runState = cellView.runState
          /\ cellView'.outputs = <<[kind |-> "Rich", mime |-> "image/svg+xml",
                                    payload |-> FileContent(cellView.reading)]>>]_vars

\* An error Response was projected onto a cell that already had an output.
C17_Witness ==
  /\ cellView.resp.type = "error"
  /\ cellView.had = 1
  /\ cellView.runState = "Error"
  /\ cellView.outputs = <<[kind |-> "Error", mime |-> "none", payload |-> cellView.resp.result]>>

\* C18: the cancel command on a cell that is not Running writes no Cancel
\* request, throws no error and changes nothing, whatever state the kernel is
\* in and whether or not the document is registered.
C18_CancelOneNotRunningNoOp ==
  [][(last'.cmd = "cancelOne" /\ ~last'.running) =>
       /\ last'.wrote = -1
       /\ ~last'.threw
       /\ UNCHANGED <<notebooks, nKernels, kernel, restarting, att, nStarts, cells, runIndex>>]_vars

\* The cancel command was given for a finished cell while the kernel of the
\* document was connected.
C18_Witness ==
  /\ last.cmd = "cancelOne"
  /\ ~last.running
  /\ cells[last.cell].runState \in {"Success", "Error"}
  /\ notebooks # 0
  /\ kernel[notebooks].socket # 0
  /\ last.wrote = -1

\* C19: the cancel-all command on a document with no cell Running writes no
\* Cancel request and throws no error, also when the document has no kernel in
\* the registry.
C19_CancelAllOnlyWhenRunning ==
  (last.cmd = "cancelAll" /\ ~last.running) => (last.wrote = -1 /\ ~last.threw)

\* C20: a Cancel request written for a cell whose Eval request is in flight
\* carries the id of that Eval request, the request of cancel-all carries id 0,
\* and a cancel command leaves every cell, every pending eval and every
\* connection as it was.
C20_CancelCarriesEvalId ==
  [][last'.cmd \in {"cancelOne", "cancelAll"} =>
       /\ cells' = cells
       /\ att' = att
       /\ kernel' = kernel
       /\ (last'.cmd = "cancelOne" /\ last'.wrote # -1 /\ EvalPending(last'.cell)) =>
            last'.wrote = cells[last'.cell].reqId
       /\ (last'.cmd = "cancelAll" /\ last'.wrote # -1) => last'.wrote = 0]_vars

\* A Cancel request was written for a cell whose eval is pending.
C20_Witness ==
  /\ last.cmd = "cancelOne"
  /\ last.wrote > 0
  /\ EvalPending(last.cell)
  /\ last.wrote = cells[last.cell].reqId
  /\ cells[last.cell].runState = "Running"

\* C21: a run start gives the cell an execution order greater than every
\* execution order assigned before it, and the Eval request of the run carries
\* that order; so the Eval requests pending at any time carry different ids,
\* none of them 0.
C21_ExecutionOrderFresh ==
  [][/\ \A c \in DocCells :
          cells'[c].executionOrder # cells[c].executionOrder =>
            /\ cells'[c].executionOrder > runIndex
            /\ cells'[c].executionOrder <= runIndex'
            /\ \A d \in DocCells : cells[d].executionOrder < cells'[c].executionOrder
     /\ \A c \in DocCells :
          EvalPending(c)' =>
            /\ cells'[c].reqId = cells'[c].executionOrder
            /\ cells'[c].reqId # 0
            /\ \A d \in DocCells \ {c} : EvalPending(d)' => cells'[d].reqId # cells'[c].reqId]_vars

\* Two evals are pending on one connection, the later run with the greater id.
C21_Witness ==
  \E c, d \in Cells :
    /\ EvalPending(c) /\ EvalPending(d)
    /\ cells[c].on = cells[d].on
    /\ 0 < cells[c].reqId
    /\ cells[c].reqId < cells[d].reqId

\* C22: the execution order counter is per document: a run started in one
\* document leaves the execution order that the next run in every other
\* document receives unchanged.
C22_CounterPerDocument ==
  [][\A d \in Docs :
       (last'.cmd = "runOne" /\ last'.doc = d) =>
         \A e \in Docs \ {d} : NextExecutionOrder(e)' = NextExecutionOrder(e)]_vars

C24_RegistryOpenClose ==
  [][/\ \A d \in Docs :
          docs'[d].notebooks # docs[d].notebooks =>
            /\ last'.doc = d
            /\ \/ /\ last'.cmd = "open"
                  /\ docs[d].notebooks = 0
                  /\ docs'[d].notebooks = nKernels + 1
                  /\ nKernels' = nKernels + 1
               \/ /\ last'.cmd = "close"
                  /\ docs'[d].notebooks = 0
     /\ \A d, e \in Docs :
          (d # e /\ docs'[d].notebooks # 0) => docs'[d].notebooks # docs'[e].notebooks
     /\ \A d \in Docs :
          (last'.cmd = "open" /\ last'.doc = d /\ docs[d].notebooks # 0) =>
            UNCHANGED <<docs, nKernels, kernel, restarting, att, nStarts>>]_vars

\* An open event arrived for a document whose registered kernel has a process.
C24_Witness ==
  /\ last.cmd = "open"
  /\ docs[last.doc].notebooks # 0
  /\ kernel[docs[last.doc].notebooks].process # 0

\* C25: when the far end closes a connection, the kernel of that connection
\* holds no connection after the 'end' event, whether or not an eval is
\* pending on it; and no Eval or Cancel request is ever written to a
\* connection that has ended.
C25_ConnectionLossObserved ==
  [][/\ \A a \in Starts :
          (att[a].socket = "open" /\ att'[a].socket = "ended") => kernel'[att[a].k].socket = 0
     /\ \A k \in Kernels :
          kernel'[k].socket # 0 => att'[kernel'[k].socket].socket = "open"
     /\ \A c \in DocCells :
          (~EvalPending(c) /\ EvalPending(c)') => att'[cells'[c].on].socket = "open"
     /\ last'.wrote # -1 =>
          /\ notebooks' # 0
          /\ kernel'[notebooks'].socket # 0
          /\ att'[kernel'[notebooks'].socket].socket = "open"]_vars

\* The connection of the registered kernel has ended with an eval pending on
\* it, and a later run found no connection.
C25_Witness ==
  \E a \in Starts, c, d \in Cells :
    /\ att[a].socket = "ended"
    /\ notebooks # 0 /\ att[a].k = notebooks
    /\ kernel[notebooks].socket = 0
    /\ cells[c].task = "eval" /\ cells[c].on = a
    /\ cells[d].evalResult = "undefined"

\* C26: reads are reassembled: no handler ever faults on the bytes of a read,
\* and once every byte the child wrote has been read (none of them while no
\* eval was pending) the Responses delivered are the Responses written, each
\* exactly once and in order, however the bytes were split over the reads.
C26_FramesReassembled ==
  /\ stream.faults = 0
  /\ (stream.unread = <<>> /\ ~stream.dropped) => stream.delivered = stream.sent

\* C27: the number in the Content-Length header of every request written
\* equals the number of bytes of the JSON payload that follows it.
C27_ContentLengthIsByteLength ==
  wire # NoWire => wire.contentLength = ByteLength(wire.payload)

\* C28: in every start attempt the child process exists only once the
\* attempt's listener is bound, and the port the child was given as its
\* startup argument is the port of that listener.
C28_SpawnAfterListenerBound ==
  \A a \in Starts :
    att[a].proc # "none" =>
      /\ att[a].server \in {"bound", "closed"}
      /\ att[a].port = AddressPort(a)
      /\ att[a].argPort = att[a].port

\* Two attempts of one kernel have both spawned their child, the second while
\* the first was still in flight.
C28_Witness ==
  \E a, b \in Starts :
    /\ a # b /\ att[a].k = att[b].k /\ att[b].dupOf = a
    /\ att[a].proc # "none" /\ att[b].proc = "alive"

\* A well-formed document: an optional leading front matter between two
\* delimiter lines, then markdown lines and R blocks that each run from an
\* opening fence to a closing fence; st is where the reading stands.
RECURSIVE WellFormedFrom(_, _)
WellFormedFrom(ls, st) ==
  IF ls = <<>> THEN st \in {"start", "body"}
  ELSE LET l == Head(ls)
           plain == l = <<>> \/ l = <<"t">>
       IN
       IF st = "start" /\ l = <<"---">> THEN WellFormedFrom(Tail(ls), "frontmatter")
       ELSE IF st = "frontmatter"
         THEN (plain /\ WellFormedFrom(Tail(ls), "frontmatter"))
              \/ (l = <<"---">> /\ WellFormedFrom(Tail(ls), "body"))
       ELSE IF st = "block"
         THEN (plain /\ WellFormedFrom(Tail(ls), "block"))
              \/ (l = <<"fence">> /\ WellFormedFrom(Tail(ls), "body"))
       ELSE (plain /\ WellFormedFrom(Tail(ls), "body"))
            \/ (l \in {<<"fence{r}">>, <<"fence{r echo}">>} /\ WellFormedFrom(Tail(ls), "block"))

\* A well-formed text also ends with a newline.
WellFormed(text) ==
  LET ls == Split(text)
  IN ls[Len(ls)] = <<>> /\ WellFormedFrom(ls, "start")

\* C29: a well-formed file that is opened, saved unedited and opened again
\* gives the same cells as at the first open: as many cells, with the same
\* kinds, languages, sources and retained fence lines.
C29_ParseSerializeParse ==
  (file.phase = "reopened" /\ WellFormed(file.original)) => file.cells = file.first

\* C30: a well-formed file that is opened and saved unedited (every R cell
\* carrying the fence lines retained at the open) has, after the save, the
\* lines it had before, line for line.
C30_SerializeParseIsText ==
  (file.phase = "saved" /\ WellFormed(file.original))
    => Split(file.content) = Split(file.original)

\* The R blocks of a well-formed sequence of lines, read independently of
\* the scanner: for each block its opening fence line, its body lines and
\* its closing fence line.  st is where the reading stands and cur the block
\* being read.
RECURSIVE BlocksFrom(_, _, _, _)
BlocksFrom(ls, st, cur, acc) ==
  IF ls = <<>> THEN acc
  ELSE LET l == Head(ls)
       IN
       IF st = "start" /\ l = <<"---">> THEN BlocksFrom(Tail(ls), "frontmatter", cur, acc)
       ELSE IF st = "frontmatter"
         THEN BlocksFrom(Tail(ls), IF l = <<"---">> THEN "body" ELSE "frontmatter", cur, acc)
       ELSE IF st = "block"
         THEN IF l = <<"fence">>
              THEN BlocksFrom(Tail(ls), "body", cur, Append(acc, [cur EXCEPT !.footer = l]))
              ELSE BlocksFrom(Tail(ls), "block", [cur EXCEPT !.body = Append(@, l)], acc)
       ELSE IF l \in {<<"fence{r}">>, <<"fence{r echo}">>}
         THEN BlocksFrom(Tail(ls), "block", [header |-> l, body |-> <<>>, footer |-> <<>>], acc)
       ELSE BlocksFrom(Tail(ls), "body", cur, acc)

Blocks(text) ==
  BlocksFrom(Split(text), "start", [header |-> <<>>, body |-> <<>>, footer |-> <<>>], <<>>)

\* The cells of the R language among cs, in order.
RCells(cs) == SelectSeq(cs, LAMBDA cell : cell.cellKind = "Code" /\ cell.language = "r")

\* C31: for a well-formed file, the R cells read at the open are, in order,
\* the R blocks of the text, each cell retaining its block's opening and
\* closing fence lines and holding its body; after a save the text has the
\* same blocks with the same fence lines around each cell's source, chunk
\* options included.
C31_FenceLinesRetained ==
  (file.phase \in {"open", "saved"} /\ WellFormedFrom(Split(file.original), "start")) =>
    LET rs == RCells(file.cells)
        before == Blocks(file.original)
        now == Blocks(file.content)
    IN /\ Len(rs) = Len(before)
       /\ Len(now) = Len(before)
       /\ \A i \in 1..Len(rs) :
            /\ rs[i].custom = Custom(before[i].header, before[i].footer)
            /\ rs[i].source = Join(before[i].body)
            /\ now[i].header = before[i].header
            /\ now[i].footer = before[i].footer
            /\ Join(now[i].body) = rs[i].source

\* A saved well-formed file with an R block that has chunk options and a body.
C31_Witness ==
  /\ file.phase = "saved"
  /\ WellFormed(file.original)
  /\ \E i \in 1..Len(file.cells) :
       /\ file.cells[i].language = "r"
       /\ file.cells[i].custom = Custom(<<"fence{r echo}">>, <<"fence">>)
       /\ file.cells[i].source = <<"t">>

\* The language an opening fence line declares: the name between the brace
\* and the first blank or closing brace.
DeclaredLanguage(l) ==
  IF l \in {<<"fence{r}">>, <<"fence{r echo}">>} THEN "r"
  ELSE IF l = <<"fence{ruby}">> THEN "ruby"
  ELSE "none"

\* C32: every cell read from the file that is runnable or tagged with the R
\* language comes from a block whose opening fence declares exactly the
\* language r, not a language whose name only begins with r.
C32_RunnableOnlyExactLanguage ==
  file.phase = "open" =>
    \A i \in 1..Len(file.cells) :
      (file.cells[i].runnable \/ file.cells[i].language = "r") =>
        /\ file.cells[i].custom # NoCustom
        /\ DeclaredLanguage(file.cells[i].custom[1].header) = "r"

\* The longest run of plain lines (text or empty) at the end of ls.
RECURSIVE PlainSuffix(_)
PlainSuffix(ls) ==
  IF ls = <<>> THEN <<>>
  ELSE LET l == ls[Len(ls)]
       IN IF l = <<>> \/ l = <<"t">>
          THEN Append(PlainSuffix(SubSeq(ls, 1, Len(ls) - 1)), l)
          ELSE <<>>

\* The markdown lines a well-formed text ends with: its plain lines after
\* the last front matter or block, without the empty line that split gives
\* after a final newline.
Remainder(text) ==
  LET rem == PlainSuffix(Split(text))
  IN IF rem # <<>> /\ rem[Len(rem)] = <<>> THEN SubSeq(rem, 1, Len(rem) - 1) ELSE rem

\* C33: when a well-formed text ends with markdown lines, the last cell read
\* is a Markdown cell holding all of them, the last line of the text
\* included, also when it is one line and when the text does not end with
\* a newline.
C33_FinalMarkdownFlushed ==
  (file.phase = "open" /\ WellFormedFrom(Split(file.original), "start")
     /\ Remainder(file.original) # <<>>) =>
    /\ file.cells # <<>>
    /\ file.cells[Len(file.cells)] = MarkdownCell(Join(Remainder(file.original)))

\* The lines a cell holds: the lines of its source and, for an R cell, its
\* retained header before them and its retained footer after them.
CellLines(cell) ==
  IF cell.custom = NoCustom THEN Split(cell.source)
  ELSE <<cell.custom[1].header>> \o Split(cell.source) \o <<cell.custom[1].footer>>

RECURSIVE AllCellLines(_)
AllCellLines(cs) ==
  IF cs = <<>> THEN <<>> ELSE CellLines(Head(cs)) \o AllCellLines(Tail(cs))

\* Every element of xs is found in ys, each at its own place and in order.
RECURSIVE ContainedInOrder(_, _)
ContainedInOrder(xs, ys) ==
  IF xs = <<>> THEN TRUE
  ELSE IF ys = <<>> THEN FALSE
  ELSE IF Head(xs) = Head(ys) THEN ContainedInOrder(Tail(xs), Tail(ys))
  ELSE ContainedInOrder(xs, Tail(ys))

\* The lines of a text that ends with a newline, without the empty line that
\* split gives after the final newline.
InputLines(text) ==
  LET ls == Split(text) IN SubSeq(ls, 1, Len(ls) - 1)

\* The plain lines ls begins with are dropped.
RECURSIVE AfterPlain(_)
AfterPlain(ls) ==
  IF ls # <<>> /\ (Head(ls) = <<>> \/ Head(ls) = <<"t">>) THEN AfterPlain(Tail(ls)) ELSE ls

\* A well-formed text, or markdown lines followed by one: the front matter
\* may come after markdown lines.
WellFormedAfterMarkdown(text) ==
  LET ls == Split(text)
  IN ls[Len(ls)] = <<>> /\ WellFormedFrom(AfterPlain(ls), "start")

\* C34: every line of a well-formed text, markdown lines before the front
\* matter included, is held by a cell read from it, each line at its own
\* place and in the order of the text.
C34_NoLineLost ==
  (file.phase = "open" /\ WellFormedAfterMarkdown(file.original)) =>
    ContainedInOrder(InputLines(file.original), AllCellLines(file.cells))

\* C35: a cell is Running only while an execution of it is under way: once
\* the eval of its run has resolved or rejected, or the start it waited for
\* has failed, the cell is in Success or Error.
C35_RunningOnlyWhileAwaiting ==
  \A c \in DocCells : cells[c].runState = "Running" => cells[c].task # "none"

\* The chunks of ls are regular: opening and closing fences alternate, from
\* the first opening fence to the last closing fence; open says that the
\* line before ls is inside a chunk.
RECURSIVE RegularFrom(_, _)
RegularFrom(ls, open) ==
  IF ls = <<>> THEN ~open
  ELSE IF IsChunkStartLine(Head(ls)) THEN ~open /\ RegularFrom(Tail(ls), TRUE)
  ELSE IF IsChunkEndLine(Head(ls)) THEN open /\ RegularFrom(Tail(ls), FALSE)
  ELSE RegularFrom(Tail(ls), open)

\* The editor holds a document with regular chunks, at least one.
HasRegularChunks ==
  /\ rmd.phase = "open"
  /\ RegularFrom(Split(rmd.text), FALSE)
  /\ GetChunks(rmd.text) # <<>>

\* C36: in a document with at least one chunk, a lookup of the previous or
\* of the next chunk throws for no cursor line; with the cursor below the end
\* line of the last chunk the previous chunk is the last chunk, and with the
\* cursor above the start line of the first chunk the next chunk is the first.
C36_PreviousAndNextChunk ==
  [][(HasRegularChunks /\ rmd'.last.cmd \in {"goToPreviousChunk", "goToNextChunk"}) =>
       LET chunks == GetChunks(rmd.text) IN
       /\ ~rmd'.last.lookupThrew
       /\ (rmd'.last.cmd = "goToPreviousChunk" /\ rmd.line > chunks[Len(chunks)].endLine)
            => rmd'.last.chunk = Len(chunks)
       /\ (rmd'.last.cmd = "goToNextChunk" /\ rmd.line < chunks[1].startLine)
            => rmd'.last.chunk = 1]_vars

\* The ids of the chunks the cursor line is in, from the start line to the
\* end line.
ChunksAtCursor ==
  {k \in 1..Len(GetChunks(rmd.text)) :
     GetChunks(rmd.text)[k].startLine <= rmd.line /\ rmd.line <= GetChunks(rmd.text)[k].endLine}

\* C37: with the cursor inside chunk k, runAboveChunks throws nothing and
\* passes on the code of the chunks 1..k-1 in order, nothing for k = 1; with
\* the cursor inside the last chunk runBelowChunks throws nothing and passes
\* on nothing.
C37_RunAboveAndBelow ==
  [][\A k \in ChunksAtCursor :
       LET chunks == GetChunks(rmd.text) IN
       /\ (HasRegularChunks /\ rmd'.last.cmd = "runAboveChunks") =>
            /\ ~rmd'.last.threw
            /\ rmd'.last.sent = ChunksText(CodeRanges(chunks, 1, k - 1))
       /\ (HasRegularChunks /\ rmd'.last.cmd = "runBelowChunks" /\ k = Len(chunks)) =>
            /\ ~rmd'.last.threw
            /\ rmd'.last.sent = <<>>]_vars

\* C38: a run of runTextInTerm that began with no terminal open and rTerm
\* undefined, with the path of the R executable known, and during which the
\* terminal was created, ends with the text sent to that terminal.
C38_TextSentToNewTerminal ==
  (term.run.pc = "done" /\ term.run.emptyAtStart /\ term.run.created) =>
    /\ term.run.outcome = "sent"
    /\ term.run.sentTo = term.rTerm

====
